---- MODULE Spec2Model ----
(***************************************************************************)
(* Model of the caption-processing code of YT_AISpider:                    *)
(*   src/subtitle_processor.py   SRTProcessor                              *)
(*   src/subtitle_translator.py  BilingualSRTTranslator                    *)
(* Python strings are sequences of one-character strings, so that parsing, *)
(* formatting, stripping and splitting are computed character by character.*)
(***************************************************************************)
EXTENDS Integers, Sequences, FiniteSets, TLC

VARIABLES
    cpc, t, ms, timecode,          \* timecode codec: position, time_to_ms argument, millisecond value, ms_to_time result
    mpc, subs0, subs, merged,      \* merge_overlapping: position, the argument as passed, the argument list's records now, return value
    apc, sub, texts, timed,        \* split_time: position, the merged block, the text pieces, return value
    tpc, text, max_words, pieces,  \* split_text: position, the text, self.max_words, return value
    ppc, lines, parsed,            \* parse_srt: position, the lines of the file, the outcome (raised or the list returned)
    pc, input_srt, blocks, bi,     \* process: position, the lines of the input file, subs and then merged, the loop's position in merged
    new_subs, idx,                 \* process: new_subs, idx
    output_srt, output_txt,        \* process: the lines written to the two output files
    xpc, cues, ci, zh_text,        \* translate_subs: position, subs, i, zh_text
    bilingual_subs, chinese_subs,  \* translate_subs: the two lists built
    sleeps, outcomes, events,      \* time.sleep calls made; what translate_safe met for each cue; calls, returns and sleeps in order
    kpc, stage_results, stage_merged   \* split_text lines 176-181: position, results, merged

codecVars == <<cpc, t, ms, timecode>>
mergeVars == <<mpc, subs0, subs, merged>>
allocVars == <<apc, sub, texts, timed>>
textVars == <<tpc, text, max_words, pieces>>
parseVars == <<ppc, lines, parsed>>
processVars == <<pc, input_srt, blocks, bi, new_subs, idx, output_srt, output_txt>>
translateVars == <<xpc, cues, ci, zh_text, bilingual_subs, chinese_subs, sleeps, outcomes, events>>
coalesceVars == <<kpc, stage_results, stage_merged>>
vars == <<codecVars, mergeVars, allocVars, textVars, parseVars, processVars, translateVars, coalesceVars>>

notCodec == <<mergeVars, allocVars, textVars, parseVars, processVars, translateVars, coalesceVars>>
notMerge == <<codecVars, allocVars, textVars, parseVars, processVars, translateVars, coalesceVars>>
notAlloc == <<codecVars, mergeVars, textVars, parseVars, processVars, translateVars, coalesceVars>>
notText == <<codecVars, mergeVars, allocVars, parseVars, processVars, translateVars, coalesceVars>>
notProcess == <<codecVars, mergeVars, allocVars, textVars, parseVars, translateVars, coalesceVars>>
notTranslate == <<codecVars, mergeVars, allocVars, textVars, parseVars, processVars, coalesceVars>>
notCoalesce == <<codecVars, mergeVars, allocVars, textVars, parseVars, processVars, translateVars>>
notParse == <<codecVars, mergeVars, allocVars, textVars, processVars, translateVars, coalesceVars>>

(***************************************************************************)
(* Idle values of each component's variables                               *)
(***************************************************************************)
NoString == <<>>
Subtitle(i, s, e, x) == [idx |-> i, start |-> s, end |-> e, text |-> x]
NoSub == [idx |-> 0, start |-> <<>>, end |-> <<>>, text |-> <<>>]

IdleCodec == cpc = "idle" /\ t = NoString /\ ms = 0 /\ timecode = NoString
IdleMerge == mpc = "idle" /\ subs0 = <<>> /\ subs = <<>> /\ merged = <<>>
IdleAlloc == apc = "idle" /\ sub = NoSub /\ texts = <<>> /\ timed = <<>>
IdleText == tpc = "idle" /\ text = NoString /\ max_words = 0 /\ pieces = <<>>
IdleProcess ==
    /\ pc = "idle" /\ input_srt = <<>> /\ blocks = <<>> /\ bi = 0
    /\ new_subs = <<>> /\ idx = 0 /\ output_srt = <<>> /\ output_txt = <<>>
IdleTranslate ==
    /\ xpc = "idle" /\ cues = <<>> /\ ci = 0 /\ zh_text = NoString
    /\ bilingual_subs = <<>> /\ chinese_subs = <<>>
    /\ sleeps = 0 /\ outcomes = <<>> /\ events = <<>>
IdleCoalesce == kpc = "idle" /\ stage_results = <<>> /\ stage_merged = <<>>
IdleParse == ppc = "idle" /\ lines = <<>> /\ parsed = [raised |-> FALSE, subs |-> <<>>]

(***************************************************************************)
(* Python str primitives                                                   *)
(***************************************************************************)
WhiteSpace == {" ", "\t", "\n"}

IsSpace(c) == c \in WhiteSpace

RECURSIVE lstrip(_)
lstrip(s) == IF s # <<>> /\ IsSpace(Head(s)) THEN lstrip(Tail(s)) ELSE s

RECURSIVE rstrip(_)
rstrip(s) ==
    IF s # <<>> /\ IsSpace(s[Len(s)]) THEN rstrip(SubSeq(s, 1, Len(s) - 1)) ELSE s

strip(s) == lstrip(rstrip(s))

\* str.split(): the maximal runs of non-whitespace characters, in order
RECURSIVE SplitWords(_, _, _)
SplitWords(s, word, acc) ==
    IF s = <<>> THEN (IF word = <<>> THEN acc ELSE Append(acc, word))
    ELSE IF IsSpace(Head(s))
         THEN SplitWords(Tail(s), <<>>, IF word = <<>> THEN acc ELSE Append(acc, word))
         ELSE SplitWords(Tail(s), Append(word, Head(s)), acc)

split(s) == SplitWords(s, <<>>, <<>>)

\* sep.join(parts)
RECURSIVE join(_, _)
join(sep, parts) ==
    IF parts = <<>> THEN <<>>
    ELSE IF Len(parts) = 1 THEN parts[1]
    ELSE parts[1] \o sep \o join(sep, Tail(parts))

StartsWith(s, p) == Len(s) >= Len(p) /\ SubSeq(s, 1, Len(p)) = p

\* s.split(sep) for a non-empty separator: cut at each leftmost occurrence
RECURSIVE SplitSep(_, _, _, _)
SplitSep(s, sep, piece, acc) ==
    IF s = <<>> THEN Append(acc, piece)
    ELSE IF StartsWith(s, sep)
         THEN SplitSep(SubSeq(s, Len(sep) + 1, Len(s)), sep, <<>>, Append(acc, piece))
         ELSE SplitSep(Tail(s), sep, Append(piece, Head(s)), acc)

split_on(s, sep) == SplitSep(s, sep, <<>>, <<>>)

Digits == <<"0", "1", "2", "3", "4", "5", "6", "7", "8", "9">>

IsDigit(c) == \E d \in 1..10 : Digits[d] = c

DigitVal(c) == (CHOOSE d \in 1..10 : Digits[d] = c) - 1

IsDigits(s) == s # <<>> /\ \A i \in 1..Len(s) : IsDigit(s[i])

\* int(s) on a string of decimal digits (surrounding whitespace is accepted)
RECURSIVE IntOfDigits(_, _)
IntOfDigits(s, acc) ==
    IF s = <<>> THEN acc ELSE IntOfDigits(Tail(s), acc * 10 + DigitVal(Head(s)))

IsInt(s) == IsDigits(strip(s))

int(s) == IntOfDigits(strip(s), 0)

\* str(n) for n >= 0
RECURSIVE StrOfNat(_)
StrOfNat(n) ==
    IF n < 10 THEN <<Digits[n + 1]>> ELSE Append(StrOfNat(n \div 10), Digits[(n % 10) + 1])

RECURSIVE ZeroFill(_, _)
ZeroFill(s, w) == IF Len(s) >= w THEN s ELSE ZeroFill(<<"0">> \o s, w)

\* f"{n:0w}": sign-aware zero padding to a minimum width of w characters
Pad(n, w) ==
    IF n >= 0 THEN ZeroFill(StrOfNat(n), w)
    ELSE <<"-">> \o ZeroFill(StrOfNat(-n), w - 1)

(***************************************************************************)
(* Timecode codec                                                          *)
(***************************************************************************)
MsPerHour == 3600000
MsPerMinute == 60000
MsPerSecond == 1000

\* the four fields of "HH:MM:SS,mmm" as the two split calls produce them
TimeFields(s) ==
    LET hmr == split_on(s, <<":">>)
        sm  == split_on(hmr[3], <<",">>)
    IN  <<hmr[1], hmr[2], sm[1], sm[2]>>

\* the unpacking and the int() calls succeed
TimeParses(s) ==
    LET hmr == split_on(s, <<":">>)
    IN  /\ Len(hmr) = 3
        /\ Len(split_on(hmr[3], <<",">>)) = 2
        /\ \A i \in 1..4 : IsInt(TimeFields(s)[i])

time_to_ms(s) ==
    LET f == TimeFields(s)
    IN  int(f[1]) * MsPerHour + int(f[2]) * MsPerMinute + int(f[3]) * MsPerSecond + int(f[4])

\* ms_to_time with the milliseconds padded to two digits instead of three
ms_to_time_ShortMillis(n) ==
    LET h  == n \div MsPerHour
        r1 == n % MsPerHour
        m  == r1 \div MsPerMinute
        r2 == r1 % MsPerMinute
        s  == r2 \div MsPerSecond
        r3 == r2 % MsPerSecond
    IN  Pad(h, 2) \o <<":">> \o Pad(m, 2) \o <<":">> \o Pad(s, 2) \o <<",">> \o Pad(r3, 2)

ms_to_time(n) ==
    LET h  == n \div MsPerHour
        r1 == n % MsPerHour
        m  == r1 \div MsPerMinute
        r2 == r1 % MsPerMinute
        s  == r2 \div MsPerSecond
        r3 == r2 % MsPerSecond
    IN  Pad(h, 2) \o <<":">> \o Pad(m, 2) \o <<":">> \o Pad(s, 2) \o <<",">> \o Pad(r3, 3)

(***************************************************************************)
(* Timecode codec as a state machine: a caller parses a timecode and       *)
(* formats the value back, or formats a millisecond value it was given.    *)
(***************************************************************************)
HourFields == {<<"0", "0">>, <<"0", "1">>, <<"9", "9">>}
MinSecFields == {<<"0", "0">>, <<"0", "7">>, <<"5", "9">>, <<"6", "0">>, <<"9", "9">>}
MilliFields == {<<"0", "0", "0">>, <<"0", "4", "5">>, <<"9", "9", "9">>}

\* every "HH:MM:SS,mmm" over the field pools
Timecodes ==
    { h \o <<":">> \o m \o <<":">> \o s \o <<",">> \o f :
        h \in HourFields, m \in MinSecFields, s \in MinSecFields, f \in MilliFields }

MaxMsInput == 2

\* millisecond values handed to ms_to_time directly: around 0 and around each field boundary
MsInputs ==
    { k * u + d : k \in (0 - MaxMsInput)..MaxMsInput,
                  u \in {1, MsPerSecond, MsPerMinute, MsPerHour},
                  d \in {-1, 0, 1} }

CodecInputs ==
    /\ timecode = NoString
    /\ \/ cpc = "parse"  /\ t \in Timecodes /\ ms = 0
       \/ cpc = "format" /\ t = NoString /\ ms \in MsInputs

TimeToMs ==
    /\ cpc = "parse"
    /\ TimeParses(t)
    /\ ms' = time_to_ms(t)
    /\ cpc' = "parsed"
    /\ UNCHANGED <<t, timecode>>
    /\ UNCHANGED notCodec

MsToTime ==
    /\ cpc \in {"parsed", "format"}
    /\ timecode' = ms_to_time(ms)
    /\ cpc' = IF cpc = "parsed" THEN "roundtrip" ELSE "formatted"
    /\ UNCHANGED <<t, ms>>
    /\ UNCHANGED notCodec

(***************************************************************************)
(* Caption parser. A file is the sequence of its lines as iteration over   *)
(* the file yields them: each ends with its newline, the last one maybe not*)
(***************************************************************************)
Arrow == <<" ", "-", "-", ">", " ">>

\* line.rstrip('\n')
RECURSIVE rstrip_newline(_)
rstrip_newline(s) ==
    IF s # <<>> /\ s[Len(s)] = "\n" THEN rstrip_newline(SubSeq(s, 1, Len(s) - 1)) ELSE s

\* lines 109-110: int(block[0]) or the unpacking of the split raises ValueError
BlockRaises(block) == ~IsInt(block[1]) \/ Len(split_on(block[2], Arrow)) # 2

\* lines 109-112: the record of a block of at least 3 lines
BlockRecord(block) ==
    Subtitle(int(block[1]), split_on(block[2], Arrow)[1], split_on(block[2], Arrow)[2],
             join(<<" ">>, SubSeq(block, 3, Len(block))))

\* lines 105-115 of SRTProcessor.parse_srt: every line is stripped; the loop ends
\* with the lines, and what block holds then is dropped
RECURSIVE ParseLoop(_, _, _)
ParseLoop(ls, block, acc) ==
    IF ls = <<>> THEN [raised |-> FALSE, subs |-> acc]
    ELSE IF strip(Head(ls)) = <<>>
         THEN IF Len(block) >= 3
              THEN IF BlockRaises(block) THEN [raised |-> TRUE, subs |-> <<>>]
                   ELSE ParseLoop(Tail(ls), <<>>, Append(acc, BlockRecord(block)))
              ELSE ParseLoop(Tail(ls), <<>>, acc)
         ELSE ParseLoop(Tail(ls), Append(block, strip(Head(ls))), acc)

parse_srt(ls) == ParseLoop(ls, <<>>, <<>>)

\* lines 88-98 of BilingualSRTTranslator.parse_srt: only the newline is taken off
\* the line that is kept; the test for a blank line strips all whitespace
RECURSIVE TrParseLoop(_, _, _)
TrParseLoop(ls, block, acc) ==
    IF ls = <<>> THEN [raised |-> FALSE, subs |-> acc]
    ELSE IF strip(rstrip_newline(Head(ls))) = <<>>
         THEN IF Len(block) >= 3
              THEN IF BlockRaises(block) THEN [raised |-> TRUE, subs |-> <<>>]
                   ELSE TrParseLoop(Tail(ls), <<>>, Append(acc, BlockRecord(block)))
              ELSE TrParseLoop(Tail(ls), <<>>, acc)
         ELSE TrParseLoop(Tail(ls), Append(block, rstrip_newline(Head(ls))), acc)

translator_parse_srt(ls) == TrParseLoop(ls, <<>>, <<>>)

MaxLines == 5

\* the lines a file is made of: empty, blanks only, an index, a time range, a text
\* and a text with a blank before it
LinePool ==
    { <<>>, <<" ">>, <<"7">>,
      ms_to_time(0) \o Arrow \o ms_to_time(MsPerSecond),
      <<"a">>, <<" ", "b">> }

\* a file of n lines; the last line ends with its newline or, when it is not
\* empty, without one
ParseInit ==
    /\ ppc = "call"
    /\ \E n \in 0..MaxLines : \E ls \in [1..n -> LinePool] : \E last_newline \in BOOLEAN :
          /\ n > 0 => (last_newline \/ ls[n] # <<>>)
          /\ lines = [i \in 1..n |-> IF i < n \/ last_newline THEN ls[i] \o <<"\n">> ELSE ls[i]]
    /\ parsed = [raised |-> FALSE, subs |-> <<>>]

ParseSrt ==
    /\ ppc = "call"
    /\ parsed' = parse_srt(lines)
    /\ ppc' = "processor"
    /\ UNCHANGED lines
    /\ UNCHANGED notParse

TranslatorParseSrt ==
    /\ ppc = "call"
    /\ parsed' = translator_parse_srt(lines)
    /\ ppc' = "translator"
    /\ UNCHANGED lines
    /\ UNCHANGED notParse

(***************************************************************************)
(* Overlap merger                                                          *)
(***************************************************************************)
\* Overlaps with a strict comparison: a record that starts exactly at the end is not merged
Overlaps_Strict(nxt, cur) == time_to_ms(nxt.start) < time_to_ms(cur.end)

\* line 131: nxt joins the accumulator
Overlaps(nxt, cur) == time_to_ms(nxt.start) <= time_to_ms(cur.end)

\* Extend without the comparison of line 134: the end always becomes nxt's
Extend_AlwaysTakeEnd(cur, nxt) ==
    [cur EXCEPT !.text = @ \o <<" ">> \o nxt.text, !.end = nxt.end]

\* lines 133-135: the accumulator after taking nxt in
Extend(cur, nxt) ==
    [cur EXCEPT !.text = @ \o <<" ">> \o nxt.text,
                !.end  = IF time_to_ms(nxt.end) > time_to_ms(cur.end) THEN nxt.end ELSE @]

\* The loop of merge_overlapping. list holds the records of the argument list; cur
\* is the record list[c], changed in place, so the argument's records change too.
\* acc holds the positions of the records appended to merged so far; i is nxt's.
RECURSIVE MergeLoop(_, _, _, _)
MergeLoop(list, i, c, acc) ==
    IF i > Len(list) THEN [list |-> list, kept |-> Append(acc, c)]
    ELSE IF Overlaps(list[i], list[c])
         THEN MergeLoop([list EXCEPT ![c] = Extend(list[c], list[i])], i + 1, c, acc)
         ELSE MergeLoop(list, i + 1, i, Append(acc, c))

\* the argument list's records after the call
merge_overlapping_arg(list) ==
    IF list = <<>> THEN <<>> ELSE MergeLoop(list, 2, 1, <<>>).list

merge_overlapping(list) ==
    IF list = <<>> THEN <<>>
    ELSE LET r == MergeLoop(list, 2, 1, <<>>)
         IN  [k \in 1..Len(r.kept) |-> r.list[r.kept[k]]]

MaxSubs == 3
MaxTick == 2

Letters == <<"a", "b", "c", "d", "e", "f", "g", "h">>

\* start and end of a record handed to the merger, in steps of 500 ms; a record
\* may end up to one step before it starts
MergeSpans ==
    { <<ms_to_time(a * 500), ms_to_time(b * 500)>> :
        <<a, b>> \in { p \in (0..MaxTick) \X (0..MaxTick) : p[2] >= p[1] - 1 } }

\* the argument: a list of up to MaxSubs records, the i-th carrying the i-th letter as text
MergeInit ==
    /\ mpc = "call"
    /\ \E n \in 0..MaxSubs : \E se \in [1..n -> MergeSpans] :
          subs0 = [i \in 1..n |-> Subtitle(i, se[i][1], se[i][2], <<Letters[i]>>)]
    /\ subs = subs0
    /\ merged = <<>>

MergeOverlapping ==
    /\ mpc = "call"
    /\ \E r \in {IF subs = <<>> THEN [list |-> <<>>, kept |-> <<>>] ELSE MergeLoop(subs, 2, 1, <<>>)} :
          /\ merged' = [k \in 1..Len(r.kept) |-> r.list[r.kept[k]]]
          /\ subs' = r.list
    /\ mpc' = "done"
    /\ UNCHANGED subs0
    /\ UNCHANGED notMerge

(***************************************************************************)
(* Text segmenter                                                          *)
(***************************************************************************)
SentenceEnd == {".", "!", "?"}

\* \w of the regular expressions (the letters are taken in lower case)
WordChars ==
    {"a", "b", "c", "d", "e", "f", "g", "h", "i", "j", "k", "l", "m", "n", "o", "p", "q",
     "r", "s", "t", "u", "v", "w", "x", "y", "z", "_",
     "0", "1", "2", "3", "4", "5", "6", "7", "8", "9"}

IsWordChar(c) == c \in WordChars

\* the alternatives of the weak-break pattern, in the pattern's order
Conjunctions ==
    << <<"a", "n", "d">>, <<"w", "h", "i", "c", "h">>, <<"b", "e", "c", "a", "u", "s", "e">>,
       <<"s", "o">>, <<"t", "h", "a", "t">> >>

\* the number of leading whitespace characters of s
RECURSIVE SpaceRun(_)
SpaceRun(s) == IF s # <<>> /\ IsSpace(Head(s)) THEN 1 + SpaceRun(Tail(s)) ELSE 0

\* line 149, re.split(r'(?<=[.!?])\s+', text): rest is what is left to scan, prev
\* the character before it, piece the part being collected
RECURSIVE SentenceScan(_, _, _, _)
SentenceScan(rest, prev, piece, acc) ==
    IF rest = <<>> THEN Append(acc, piece)
    ELSE IF prev \in SentenceEnd /\ IsSpace(Head(rest))
         THEN SentenceScan(SubSeq(rest, SpaceRun(rest) + 1, Len(rest)), " ", <<>>, Append(acc, piece))
         ELSE SentenceScan(Tail(rest), Head(rest), Append(piece, Head(rest)), acc)

SentenceSplit(s) == SentenceScan(s, "", <<>>, <<>>)

\* ConjunctionAt without the lookahead (?!'): an apostrophe may follow the word
ConjunctionAt_NoLookahead(w, rest, prev) ==
    /\ StartsWith(rest, w)
    /\ ~IsWordChar(prev)
    /\ Len(rest) > Len(w) => ~IsWordChar(rest[Len(w) + 1])

\* \b(w)\b(?!') matches at the head of rest, prev being the character before it
ConjunctionAt(w, rest, prev) ==
    /\ StartsWith(rest, w)
    /\ ~IsWordChar(prev)
    /\ Len(rest) > Len(w) => (~IsWordChar(rest[Len(w) + 1]) /\ rest[Len(w) + 1] # "'")

\* lines 158-161, re.split(r'\b(and|which|because|so|that)\b(?!\')', part): the
\* text between the matches and the matched conjunctions, alternating
RECURSIVE WeakScan(_, _, _, _)
WeakScan(rest, prev, piece, acc) ==
    IF rest = <<>> THEN Append(acc, piece)
    ELSE IF \E k \in 1..Len(Conjunctions) : ConjunctionAt(Conjunctions[k], rest, prev)
         THEN LET w == Conjunctions[CHOOSE k \in 1..Len(Conjunctions) :
                                        ConjunctionAt(Conjunctions[k], rest, prev)]
              IN  WeakScan(SubSeq(rest, Len(w) + 1, Len(rest)), w[Len(w)], <<>>,
                           Append(Append(acc, piece), w))
         ELSE WeakScan(Tail(rest), Head(rest), Append(piece, Head(rest)), acc)

WeakSplit(part) == WeakScan(part, "", <<>>, <<>>)

\* results.append(buf.strip()) under `if buf.strip()`
Flush(results, buf) == IF strip(buf) # <<>> THEN Append(results, strip(buf)) ELSE results

\* lines 162-171: the chunks put back together into buffers of at most mw words
RECURSIVE Reassemble(_, _, _, _)
Reassemble(chunks, buf, results, mw) ==
    IF chunks = <<>> THEN Flush(results, buf)
    ELSE IF Len(split(buf \o <<" ">> \o Head(chunks))) > mw
         THEN Reassemble(Tail(chunks), Head(chunks), Flush(results, buf), mw)
         ELSE Reassemble(Tail(chunks), buf \o <<" ">> \o Head(chunks), results, mw)

\* lines 153-173: stages 1 and 2 over the sentence parts
RECURSIVE SplitParts(_, _, _)
SplitParts(parts, results, mw) ==
    IF parts = <<>> THEN results
    ELSE IF Len(split(Head(parts))) > mw
         THEN SplitParts(Tail(parts), Reassemble(WeakSplit(Head(parts)), <<>>, results, mw), mw)
         ELSE SplitParts(Tail(parts), Append(results, strip(Head(parts))), mw)

ShortWords == 3

\* Coalesce with < in place of the <= of line 178
RECURSIVE Coalesce_Strict(_, _)
Coalesce_Strict(results, acc) ==
    IF results = <<>> THEN acc
    ELSE IF acc # <<>> /\ Len(split(Head(results))) < ShortWords
         THEN Coalesce_Strict(Tail(results),
                              [acc EXCEPT ![Len(acc)] = @ \o <<" ">> \o Head(results)])
         ELSE Coalesce_Strict(Tail(results), Append(acc, Head(results)))

\* lines 176-181: a piece of at most 3 words joins the piece before it
RECURSIVE Coalesce(_, _)
Coalesce(results, acc) ==
    IF results = <<>> THEN acc
    ELSE IF acc # <<>> /\ Len(split(Head(results))) <= ShortWords
         THEN Coalesce(Tail(results),
                       [acc EXCEPT ![Len(acc)] = @ \o <<" ">> \o Head(results)])
         ELSE Coalesce(Tail(results), Append(acc, Head(results)))

\* HardCutWords without the loop of lines 187-189: the words are kept as one piece
HardCutWords_NoCut(words, final, mw) ==
    IF words # <<>> THEN Append(final, join(<<" ">>, words)) ELSE final

\* lines 187-191: the words of one piece cut into groups of mw words
RECURSIVE HardCutWords(_, _, _)
HardCutWords(words, final, mw) ==
    IF Len(words) > mw
    THEN HardCutWords(SubSeq(words, mw + 1, Len(words)),
                      Append(final, join(<<" ">>, SubSeq(words, 1, mw))), mw)
    ELSE IF words # <<>> THEN Append(final, join(<<" ">>, words)) ELSE final

\* lines 184-191
RECURSIVE HardCut(_, _, _)
HardCut(ps, final, mw) ==
    IF ps = <<>> THEN final
    ELSE HardCut(Tail(ps), HardCutWords(split(Head(ps)), final, mw), mw)

\* the lists after stages 2 and 3
SplitResults(s, mw) == SplitParts(SentenceSplit(s), <<>>, mw)
SplitMerged(s, mw) == Coalesce(SplitResults(s, mw), <<>>)

split_text(s, mw) == HardCut(SplitMerged(s, mw), <<>>, mw)

MaxTokens == 5
MaxWords == 2

\* what the texts are made of: a plain word, a conjunction, and the characters the
\* patterns look at
Tokens == {<<"a">>, <<"s", "o">>, <<" ">>, <<".">>, <<"'">>}

RECURSIVE Concat(_)
Concat(ss) == IF ss = <<>> THEN <<>> ELSE Head(ss) \o Concat(Tail(ss))

\* max_words >= 1: with 0 the loop of line 187 never ends
TextInit ==
    /\ tpc = "call"
    /\ \E n \in 0..MaxTokens : \E ts \in [1..n -> Tokens] : text = Concat(ts)
    /\ max_words \in 1..MaxWords
    /\ pieces = <<>>

SplitText ==
    /\ tpc = "call"
    /\ pieces' = split_text(text, max_words)
    /\ tpc' = "done"
    /\ UNCHANGED <<text, max_words>>
    /\ UNCHANGED notText

MaxResults == 4

\* pieces of 0, 1, 3, 4 and 5 words as stages 1 and 2 leave them in results
ResultPool ==
    { <<>>, <<"a">>, <<"a", " ", "b", " ", "c">>, <<"a", " ", "b", " ", "c", " ", "d">>,
      <<"s", "o", " ", "a", " ", "b", " ", "c", " ", "d">> }

\* results at line 176; only the last piece can be empty (a text that ends with
\* whitespace after a sentence mark, or a blank text)
CoalesceInit ==
    /\ kpc = "call"
    /\ \E n \in 0..MaxResults : \E rs \in [1..n -> ResultPool] :
          /\ \A i \in 1..(n - 1) : rs[i] # <<>>
          /\ stage_results = rs
    /\ stage_merged = <<>>

\* lines 176-181
CoalesceStage ==
    /\ kpc = "call"
    /\ stage_merged' = Coalesce(stage_results, <<>>)
    /\ kpc' = "done"
    /\ UNCHANGED stage_results
    /\ UNCHANGED notCoalesce

(***************************************************************************)
(* Time allocator                                                          *)
(***************************************************************************)
MinCueMs == 300

Max(a, b) == IF a >= b THEN a ELSE b

\* int(a / b) for b > 0: the quotient cut toward zero
IntQuot(a, b) == IF a >= 0 THEN a \div b ELSE 0 - ((0 - a) \div b)

RECURSIVE SumLen(_)
SumLen(ts) == IF ts = <<>> THEN 0 ELSE Len(Head(ts)) + SumLen(Tail(ts))

\* NextEnd with the last piece allocated like the others
NextEnd_LastProportional(i, n, cursor, total_ms, l, total_len, end_ms) ==
    cursor + Max(IntQuot(total_ms * l, total_len), MinCueMs)

\* lines 211-215: where the i-th of n cues ends
NextEnd(i, n, cursor, total_ms, l, total_len, end_ms) ==
    IF i = n THEN end_ms
    ELSE cursor + Max(IntQuot(total_ms * l, total_len), MinCueMs)

\* lines 210-220: the loop of split_time from piece i on
RECURSIVE TimeLoop(_, _, _, _, _, _, _)
TimeLoop(ts, i, cursor, total_ms, total_len, end_ms, result) ==
    IF i > Len(ts) THEN result
    ELSE LET nxt == NextEnd(i, Len(ts), cursor, total_ms, Len(ts[i]), total_len, end_ms)
         IN  TimeLoop(ts, i + 1, nxt, total_ms, total_len, end_ms,
                      Append(result, Subtitle(0, ms_to_time(cursor), ms_to_time(nxt), ts[i])))

\* the division of line 214 is reached with a zero divisor
SplitTimeDividesByZero(ts) == Len(ts) >= 2 /\ SumLen(ts) = 0

split_time(b, ts) ==
    LET start_ms == time_to_ms(b.start)
        end_ms   == time_to_ms(b.end)
    IN  TimeLoop(ts, 1, start_ms, end_ms - start_ms, SumLen(ts), end_ms, <<>>)

MaxPieces == 3
MaxSpan == 6

\* pieces of 1 and of 5 characters
PiecePool == {<<"a">>, <<"a", "b", " ", "c", "d">>}

PieceLists == UNION { [1..n -> PiecePool] : n \in 1..MaxPieces }

\* blocks that start at 1 s or just before a minute boundary, and span
\* -250 ms to MaxSpan * 250 ms
AllocBlocks ==
    { Subtitle(1, ms_to_time(s), ms_to_time(s + k * 250), <<>>) :
        s \in {MsPerSecond, MsPerMinute - 100}, k \in (0 - 1)..MaxSpan }

AllocInit == apc = "call" /\ sub \in AllocBlocks /\ texts \in PieceLists /\ timed = <<>>

SplitTime ==
    /\ apc = "call"
    /\ ~SplitTimeDividesByZero(texts)
    /\ timed' = split_time(sub, texts)
    /\ apc' = "done"
    /\ UNCHANGED <<sub, texts>>
    /\ UNCHANGED notAlloc

(***************************************************************************)
(* Serializer and the main flow, SRTProcessor.process                      *)
(***************************************************************************)
DefaultMaxWords == 23

Newline == <<"\n">>

\* lines 231-234: the lines save_srt writes for the i-th record, then the rest
RECURSIVE SaveLoop(_, _, _)
SaveLoop(ss, i, acc) ==
    IF ss = <<>> THEN acc
    ELSE SaveLoop(Tail(ss), i + 1,
                  acc \o << StrOfNat(i) \o Newline,
                            Head(ss).start \o Arrow \o Head(ss).end \o Newline,
                            Head(ss).text \o Newline,
                            Newline >>)

save_srt(ss) == SaveLoop(ss, 1, <<>>)

\* lines 258-264: the sentences kept, each ending with a sentence mark
RECURSIVE FilterSentences(_, _)
FilterSentences(sentences, acc) ==
    IF sentences = <<>> THEN acc
    ELSE LET x == strip(Head(sentences))
         IN  IF x = <<>> THEN FilterSentences(Tail(sentences), acc)
             ELSE IF x[Len(x)] \in SentenceEnd
                  THEN FilterSentences(Tail(sentences), Append(acc, x))
                  ELSE FilterSentences(Tail(sentences), Append(acc, x \o <<".">>))

extract_full_sentences(ss) ==
    FilterSentences(SentenceSplit(join(<<" ">>, [i \in 1..Len(ss) |-> ss[i].text])), <<>>)

\* lines 280-283
save_as_text(sentences) == [i \in 1..Len(sentences) |-> sentences[i] \o Newline]

\* lines 320-323: the cues of one block numbered from first on
Numbered(timed_subs, first) == [i \in 1..Len(timed_subs) |-> [timed_subs[i] EXCEPT !.idx = first + i - 1]]

MaxBlocks == 2

\* the time ranges and the texts of the blocks of an input file; the last range
\* lacks its arrow
RangePool ==
    { ms_to_time(0) \o Arrow \o ms_to_time(2 * MsPerSecond),
      ms_to_time(MsPerSecond) \o Arrow \o ms_to_time(MsPerSecond + 200),
      ms_to_time(2 * MsPerSecond + 500) \o Arrow \o ms_to_time(4 * MsPerSecond),
      ms_to_time(0) \o <<" ">> \o ms_to_time(MsPerSecond) }

BlockTextPool ==
    { <<"a", " ", "b", ".">>,
      <<"s", "o", " ", "a", " ", "b">>,
      <<"a", ".", " ", "b", " ", "c", " ", "d", " ", "e">> }

\* the lines of the k-th block of a file, without the blank line after it
BlockLines(k, range, txt) == << StrOfNat(k) \o Newline, range \o Newline, txt \o Newline >>

RECURSIVE FileOf(_, _, _, _)
FileOf(n, ranges, txts, last_blank) ==
    IF n = 0 THEN <<>>
    ELSE FileOf(n - 1, ranges, txts, TRUE) \o BlockLines(n, ranges[n], txts[n])
         \o (IF last_blank THEN <<Newline>> ELSE <<>>)

\* process is called on a file of up to MaxBlocks blocks, each closed by a blank
\* line, the last one maybe by the end of the file
ProcessInit ==
    /\ pc = "parse"
    /\ \E n \in 0..MaxBlocks : \E ranges \in [1..n -> RangePool] :
       \E txts \in [1..n -> BlockTextPool] : \E last_blank \in BOOLEAN :
          input_srt = FileOf(n, ranges, txts, last_blank)
    /\ max_words \in {MaxWords, DefaultMaxWords}
    /\ blocks = <<>> /\ bi = 0 /\ new_subs = <<>> /\ idx = 0
    /\ output_srt = <<>> /\ output_txt = <<>>
    /\ tpc = "idle" /\ text = NoString /\ pieces = <<>>

\* line 305
ProcessParse ==
    /\ pc = "parse"
    /\ ~parse_srt(input_srt).raised
    /\ blocks' = parse_srt(input_srt).subs
    /\ pc' = "merge"
    /\ UNCHANGED <<input_srt, bi, new_subs, idx, output_srt, output_txt>>
    /\ UNCHANGED notProcess

\* line 305 when parse_srt raises: process ends with the exception
ProcessParseRaises ==
    /\ pc = "parse"
    /\ parse_srt(input_srt).raised
    /\ pc' = "raised"
    /\ UNCHANGED <<input_srt, blocks, bi, new_subs, idx, output_srt, output_txt>>
    /\ UNCHANGED notProcess

\* lines 308-311
ProcessMerge ==
    /\ pc = "merge"
    /\ blocks' = merge_overlapping(blocks)
    /\ bi' = 1
    /\ new_subs' = <<>>
    /\ idx' = 1
    /\ pc' = "segment"
    /\ UNCHANGED <<input_srt, output_srt, output_txt>>
    /\ UNCHANGED notProcess

\* lines 313-323: one pass of the loop over merged
ProcessSegment ==
    /\ pc = "segment"
    /\ bi <= Len(blocks)
    /\ \E ps \in {split_text(blocks[bi].text, max_words)} :
       \E timed_subs \in {split_time(blocks[bi], ps)} :
          /\ new_subs' = new_subs \o Numbered(timed_subs, idx)
          /\ idx' = idx + Len(timed_subs)
    /\ bi' = bi + 1
    /\ UNCHANGED <<pc, input_srt, blocks, output_srt, output_txt>>
    /\ UNCHANGED notProcess

\* line 326
ProcessSaveSrt ==
    /\ pc = "segment"
    /\ bi > Len(blocks)
    /\ output_srt' = save_srt(new_subs)
    /\ pc' = "save_txt"
    /\ UNCHANGED <<input_srt, blocks, bi, new_subs, idx, output_txt>>
    /\ UNCHANGED notProcess

\* lines 330-349, save_txt being True
ProcessSaveTxt ==
    /\ pc = "save_txt"
    /\ output_txt' = save_as_text(extract_full_sentences(new_subs))
    /\ pc' = "done"
    /\ UNCHANGED <<input_srt, blocks, bi, new_subs, idx, output_srt>>
    /\ UNCHANGED notProcess

(***************************************************************************)
(* Translation pass, BilingualSRTTranslator.translate_subs                 *)
(***************************************************************************)
\* what self.translator.translate may return
Translations == {<<"z">>, <<"z", " ", "y">>}

\* OnTranslateError returning an empty text instead of the source text
OnTranslateError_Empty(src) == <<>>

\* line 125: what translate_safe returns when the translator raised
OnTranslateError(src) == src

\* line 155
BilingualText(src, zh) == src \o Newline \o zh

MaxCues == 3

\* texts of the cues handed to translate_subs; the second is blank
CueTexts == {<<"a">>, <<" ">>, <<"b", " ", "c">>}

\* the i-th cue carries index i + 4 and its own time range
TranslateInit ==
    /\ xpc = "translate"
    /\ \E n \in 0..MaxCues : \E txts \in [1..n -> CueTexts] :
          cues = [i \in 1..n |->
                    Subtitle(i + 4, ms_to_time(i * MsPerSecond), ms_to_time(i * MsPerSecond + 500), txts[i])]
    /\ ci = 1
    /\ zh_text = NoString
    /\ bilingual_subs = <<>> /\ chinese_subs = <<>>
    /\ sleeps = 0 /\ outcomes = <<>> /\ events = <<>>

\* lines 116-117: a blank text is returned as it is, the translator is not called
TranslateSafeBlank ==
    /\ xpc = "translate"
    /\ ci <= Len(cues)
    /\ strip(cues[ci].text) = <<>>
    /\ zh_text' = cues[ci].text
    /\ outcomes' = Append(outcomes, [kind |-> "blank", value |-> cues[ci].text])
    /\ xpc' = "append"
    /\ UNCHANGED <<cues, ci, bilingual_subs, chinese_subs, sleeps, events>>
    /\ UNCHANGED notTranslate

\* line 120: the translator returns a translation
TranslateSafeReturns ==
    /\ xpc = "translate"
    /\ ci <= Len(cues)
    /\ strip(cues[ci].text) # <<>>
    /\ \E zh \in Translations :
          /\ zh_text' = zh
          /\ outcomes' = Append(outcomes, [kind |-> "returned", value |-> zh])
    /\ events' = events \o << <<"call", ci>>, <<"return", ci>> >>
    /\ xpc' = "append"
    /\ UNCHANGED <<cues, ci, bilingual_subs, chinese_subs, sleeps>>
    /\ UNCHANGED notTranslate

\* lines 120-125: the translator raises, the source text is returned
TranslateSafeRaises ==
    /\ xpc = "translate"
    /\ ci <= Len(cues)
    /\ strip(cues[ci].text) # <<>>
    /\ zh_text' = OnTranslateError(cues[ci].text)
    /\ outcomes' = Append(outcomes, [kind |-> "raised", value |-> <<>>])
    /\ events' = events \o << <<"call", ci>>, <<"raise", ci>> >>
    /\ xpc' = "append"
    /\ UNCHANGED <<cues, ci, bilingual_subs, chinese_subs, sleeps>>
    /\ UNCHANGED notTranslate

\* lines 155-163
AppendSubs ==
    /\ xpc = "append"
    /\ bilingual_subs' =
          Append(bilingual_subs,
                 Subtitle(cues[ci].idx, cues[ci].start, cues[ci].end,
                          BilingualText(cues[ci].text, zh_text)))
    /\ chinese_subs' =
          Append(chinese_subs, Subtitle(cues[ci].idx, cues[ci].start, cues[ci].end, zh_text))
    /\ xpc' = "delay"
    /\ UNCHANGED <<cues, ci, zh_text, sleeps, outcomes, events>>
    /\ UNCHANGED notTranslate

\* lines 166-167, i < total
Delay ==
    /\ xpc = "delay"
    /\ ci < Len(cues)
    /\ sleeps' = sleeps + 1
    /\ events' = Append(events, <<"sleep", ci>>)
    /\ ci' = ci + 1
    /\ xpc' = "translate"
    /\ UNCHANGED <<cues, zh_text, bilingual_subs, chinese_subs, outcomes>>
    /\ UNCHANGED notTranslate

\* NoDelay with the test of line 166 left out: time.sleep is called after the last cue too
NoDelay_Sleeps ==
    /\ xpc = "delay"
    /\ ci >= Len(cues)
    /\ sleeps' = sleeps + 1
    /\ events' = Append(events, <<"sleep", ci>>)
    /\ ci' = ci + 1
    /\ xpc' = "translate"
    /\ UNCHANGED <<cues, zh_text, bilingual_subs, chinese_subs, outcomes>>
    /\ UNCHANGED notTranslate

\* line 166, the last cue: no delay
NoDelay ==
    /\ xpc = "delay"
    /\ ci >= Len(cues)
    /\ ci' = ci + 1
    /\ xpc' = "translate"
    /\ UNCHANGED <<cues, zh_text, bilingual_subs, chinese_subs, sleeps, outcomes, events>>
    /\ UNCHANGED notTranslate

\* lines 169-170
TranslateSubsReturn ==
    /\ xpc = "translate"
    /\ ci > Len(cues)
    /\ xpc' = "done"
    /\ UNCHANGED <<cues, ci, zh_text, bilingual_subs, chinese_subs, sleeps, outcomes, events>>
    /\ UNCHANGED notTranslate

(***************************************************************************)
(* Specifications, one per component                                       *)
(***************************************************************************)
Init == ProcessInit /\ IdleCodec /\ IdleMerge /\ IdleAlloc /\ IdleParse /\ IdleTranslate /\ IdleCoalesce

Next ==
    \/ ProcessParse
    \/ ProcessParseRaises
    \/ ProcessMerge
    \/ ProcessSegment
    \/ ProcessSaveSrt
    \/ ProcessSaveTxt

Spec == Init /\ [][Next]_vars

InitTranslate == TranslateInit /\ IdleCodec /\ IdleMerge /\ IdleAlloc /\ IdleText /\ IdleParse /\ IdleProcess /\ IdleCoalesce

NextTranslate ==
    \/ TranslateSafeBlank
    \/ TranslateSafeReturns
    \/ TranslateSafeRaises
    \/ AppendSubs
    \/ Delay
    \/ NoDelay
    \/ TranslateSubsReturn

SpecTranslate == InitTranslate /\ [][NextTranslate]_vars

InitCodec == CodecInputs /\ IdleMerge /\ IdleAlloc /\ IdleText /\ IdleParse /\ IdleProcess /\ IdleTranslate /\ IdleCoalesce

NextCodec == TimeToMs \/ MsToTime

SpecCodec == InitCodec /\ [][NextCodec]_vars

InitMerge == MergeInit /\ IdleCodec /\ IdleAlloc /\ IdleText /\ IdleParse /\ IdleProcess /\ IdleTranslate /\ IdleCoalesce

NextMerge == MergeOverlapping

SpecMerge == InitMerge /\ [][NextMerge]_vars

InitCoalesce == CoalesceInit /\ IdleCodec /\ IdleMerge /\ IdleAlloc /\ IdleText /\ IdleParse /\ IdleProcess /\ IdleTranslate

NextCoalesce == CoalesceStage

SpecCoalesce == InitCoalesce /\ [][NextCoalesce]_vars

InitText == TextInit /\ IdleCodec /\ IdleMerge /\ IdleAlloc /\ IdleParse /\ IdleProcess /\ IdleTranslate /\ IdleCoalesce

NextText == SplitText

SpecText == InitText /\ [][NextText]_vars

InitParse == ParseInit /\ IdleCodec /\ IdleMerge /\ IdleAlloc /\ IdleText /\ IdleProcess /\ IdleTranslate /\ IdleCoalesce

NextParse == ParseSrt \/ TranslatorParseSrt

SpecParse == InitParse /\ [][NextParse]_vars

InitAlloc == AllocInit /\ IdleCodec /\ IdleMerge /\ IdleText /\ IdleParse /\ IdleProcess /\ IdleTranslate /\ IdleCoalesce

NextAlloc == SplitTime

SpecAlloc == InitAlloc /\ [][NextAlloc]_vars

(***************************************************************************)
(* Properties of the timecode codec (checked under SpecCodec)              *)
(***************************************************************************)
\* C6 as stated: every timecode HH:MM:SS,mmm whose fields have the widths 2,2,2,3
\* comes back unchanged from ms_to_time(time_to_ms(t)).
C6_RoundTripAllFields == cpc = "roundtrip" => timecode = t

\* C6 amended: a timecode HH:MM:SS,mmm of field widths 2,2,2,3 whose minutes and
\* seconds are at most 59 comes back unchanged from ms_to_time(time_to_ms(t)).
C6_RoundTripNormalised ==
    (/\ cpc = "roundtrip"
     /\ int(TimeFields(t)[2]) <= 59
     /\ int(TimeFields(t)[3]) <= 59) => timecode = t

\* a round trip of 99:59:07,045 was made
C6_Witness ==
    /\ cpc = "roundtrip"
    /\ t = <<"9", "9", ":", "5", "9", ":", "0", "7", ",", "0", "4", "5">>
    /\ ms = 99 * MsPerHour + 59 * MsPerMinute + 7 * MsPerSecond + 45
    /\ timecode = t

\* the result has the shape H..H:MM:SS,mmm: digits only, hours of at least 2 digits
IsPaddedTimecode(s) ==
    /\ Len(split_on(s, <<":">>)) = 3
    /\ Len(split_on(split_on(s, <<":">>)[3], <<",">>)) = 2
    /\ \A i \in 1..4 : IsDigits(TimeFields(s)[i])
    /\ Len(TimeFields(s)[1]) >= 2
    /\ Len(TimeFields(s)[2]) = 2
    /\ Len(TimeFields(s)[3]) = 2
    /\ Len(TimeFields(s)[4]) = 3

\* C9: ms_to_time returns no timecode for a negative value (it fails instead), and
\* for a non-negative value returns fields zero-padded to the widths 2,2,2,3.
C9_NegativeRejected ==
    cpc = "formatted" =>
        /\ ms < 0 => timecode = NoString
        /\ ms >= 0 => IsPaddedTimecode(timecode)

(***************************************************************************)
(* Properties of the overlap merger (checked under SpecMerge)              *)
(***************************************************************************)
SetMax(S) == CHOOSE x \in S : \A y \in S : y <= x

\* the starts and the ends of a record list, in milliseconds
StartsMs(list) == [i \in 1..Len(list) |-> time_to_ms(list[i].start)]
EndsMs(list) == [i \in 1..Len(list) |-> time_to_ms(list[i].end)]

\* the latest of the ends E[i..j]
MaxEndMs(E, i, j) == SetMax({ E[k] : k \in i..j })

\* B is the set of positions that open a run, given the starts S and ends E:
\* position 1, and every later position whose start is after every end of the run so far
IsRunStarts(S, E, B) ==
    /\ Len(S) > 0 => 1 \in B
    /\ \A i \in 2..Len(S) :
         i \in B <=> S[i] > MaxEndMs(E, SetMax({ x \in B : x < i }), i - 1)

RunStarts(S, E) == CHOOSE B \in SUBSET (1..Len(S)) : IsRunStarts(S, E, B)

\* the last position of the run opened at b, in a list of n records
RunLast(n, B, b) ==
    IF \E x \in B : x > b THEN SetMax({ i \in b..n : \A x \in B : x > b => i < x })
    ELSE n

\* the elements of a set of numbers in increasing order
RECURSIVE SortedSeq(_)
SortedSeq(S) ==
    IF S = {} THEN <<>>
    ELSE LET m == SetMax(S) IN Append(SortedSeq(S \ {m}), m)

\* C3: the output has one record per run, in order; its start and index are those
\* of the run's first record, its end is the latest end in the run, its text the
\* run's texts joined by single spaces. Empty input gives empty output.
C3_MergePartition ==
    mpc = "done" =>
        \A S \in {StartsMs(subs0)} : \A E \in {EndsMs(subs0)} :
        \A B \in {RunStarts(S, E)} : \A bs \in {SortedSeq(B)} :
            /\ Len(merged) = Cardinality(B)
            /\ subs0 = <<>> => merged = <<>>
            /\ \A k \in 1..Len(bs) : \A e \in {RunLast(Len(subs0), B, bs[k])} :
                 /\ merged[k].start = subs0[bs[k]].start
                 /\ merged[k].idx = subs0[bs[k]].idx
                 /\ time_to_ms(merged[k].end) = MaxEndMs(E, bs[k], e)
                 /\ \E j \in bs[k]..e : merged[k].end = subs0[j].end
                 /\ merged[k].text =
                        join(<<" ">>, [j \in 1..(e - bs[k] + 1) |-> subs0[bs[k] + j - 1].text])

\* three records merged into two: a run of two whose second record ends earlier
\* than the first, then a record that starts after the run's end
C3_Witness ==
    /\ mpc = "done"
    /\ Len(subs0) = 3
    /\ Len(merged) = 2
    /\ merged[1].text = <<"a", " ", "b">>
    /\ time_to_ms(subs0[2].end) < time_to_ms(subs0[1].end)
    /\ merged[1].end = subs0[1].end
    /\ merged[2] = subs0[3]

\* C4 as stated: the merged sequence runs from the first input record's start to
\* the last input record's end.
C4_SpanEqualsInputSpan ==
    (mpc = "done" /\ subs0 # <<>>) =>
        /\ merged[1].start = subs0[1].start
        /\ merged[Len(merged)].end = subs0[Len(subs0)].end

\* C4 amended: the merged sequence runs from the first input record's start to the
\* latest end among the records of the last run, which is never earlier than the
\* last input record's end.
C4_SpanOfLastRun ==
    (mpc = "done" /\ subs0 # <<>>) =>
        \A S \in {StartsMs(subs0)} : \A E \in {EndsMs(subs0)} :
        \A b \in {SetMax(RunStarts(S, E))} : \A last \in {time_to_ms(merged[Len(merged)].end)} :
            /\ merged[1].start = subs0[1].start
            /\ last = MaxEndMs(E, b, Len(subs0))
            /\ last >= E[Len(subs0)]

\* the last run holds a record that ends before an earlier record of the run
C4_Witness ==
    /\ mpc = "done"
    /\ Len(subs0) = 2
    /\ Len(merged) = 1
    /\ time_to_ms(subs0[2].end) < time_to_ms(subs0[1].end)
    /\ time_to_ms(merged[1].end) > time_to_ms(subs0[2].end)

(***************************************************************************)
(* Properties of the time allocator (checked under SpecAlloc)              *)
(***************************************************************************)
BlockStartMs == time_to_ms(sub.start)
BlockEndMs == time_to_ms(sub.end)

\* C1: for a block with start <= end, split_time returns one cue per piece in piece
\* order; the first cue starts at the block's start, the last cue ends at the
\* block's end, and every later cue starts where the cue before it ends.
C1_AllocationCoverage ==
    (apc = "done" /\ BlockStartMs <= BlockEndMs) =>
        /\ Len(timed) = Len(texts)
        /\ \A i \in 1..Len(texts) : timed[i].text = texts[i]
        /\ time_to_ms(timed[1].start) = BlockStartMs
        /\ timed[1].start = sub.start
        /\ time_to_ms(timed[Len(timed)].end) = BlockEndMs
        /\ timed[Len(timed)].end = sub.end
        /\ \A i \in 2..Len(timed) : timed[i].start = timed[i - 1].end

\* three pieces in a block of 500 ms: the first two cues get the 300 ms floor, the
\* last one still ends at the block's end
C1_Witness ==
    /\ apc = "done"
    /\ Len(texts) = 3
    /\ BlockEndMs - BlockStartMs = 500
    /\ time_to_ms(timed[1].end) = BlockStartMs + MinCueMs
    /\ time_to_ms(timed[2].end) = BlockStartMs + 2 * MinCueMs
    /\ time_to_ms(timed[3].end) = BlockEndMs

\* C2: for a block with start <= end, every cue lies inside the block and does not
\* end before it starts: start_ms <= cue.start <= cue.end <= end_ms.
C2_CuesInsideBlock ==
    (apc = "done" /\ BlockStartMs <= BlockEndMs) =>
        \A i \in 1..Len(timed) :
            /\ BlockStartMs <= time_to_ms(timed[i].start)
            /\ time_to_ms(timed[i].start) <= time_to_ms(timed[i].end)
            /\ time_to_ms(timed[i].end) <= BlockEndMs


(***************************************************************************)
(* Properties of the text segmenter (checked under SpecText)               *)
(***************************************************************************)
\* C5: every piece split_text returns has between 1 and max_words words, also a
\* piece that coalescing made longer; an empty text gives no piece.
C5_WordCountBound ==
    tpc = "done" =>
        /\ \A i \in 1..Len(pieces) :
             /\ Len(split(pieces[i])) >= 1
             /\ Len(split(pieces[i])) <= max_words
        /\ text = <<>> => pieces = <<>>

\* coalescing made a piece of more than max_words words, and split_text returned
C5_Witness ==
    /\ tpc = "done"
    /\ Len(SplitResults(text, max_words)) >= 2
    /\ \A i \in 1..Len(SplitResults(text, max_words)) :
         Len(split(SplitResults(text, max_words)[i])) <= max_words
    /\ \E i \in 1..Len(SplitMerged(text, max_words)) :
         Len(split(SplitMerged(text, max_words)[i])) > max_words
    /\ Len(pieces) >= 2


(***************************************************************************)
(* Properties of the caption parser (checked under SpecParse)              *)
(***************************************************************************)
IsBlankLine(l) == strip(l) = <<>>

\* a maximal run of non-blank lines starts at line i of the file f
RunStartsAt(f, i) == ~IsBlankLine(f[i]) /\ (i = 1 \/ IsBlankLine(f[i - 1]))

\* the last line of the run that starts at line i
RunEndFrom(f, i) == SetMax({ j \in i..Len(f) : \A k \in i..j : ~IsBlankLine(f[k]) })

\* the first lines of the runs of at least 3 lines, in file order
CaptionRuns(f) ==
    SortedSeq({ i \in 1..Len(f) : RunStartsAt(f, i) /\ RunEndFrom(f, i) - i + 1 >= 3 })

\* the lines i..j of the file as the parser keeps them
KeptLines(f, i, j, which) ==
    [k \in 1..(j - i + 1) |->
        IF which = "processor" THEN strip(f[i + k - 1]) ELSE rstrip_newline(f[i + k - 1])]

\* C7: when every run of at least 3 non-blank lines has an integer first line and a
\* range second line, parse_srt returns one record per such run, in file order,
\* also for the last run when the file does not end with a blank line; shorter
\* runs give no record.
C7_BlockClosedAtEndOfInput ==
    ppc \in {"processor", "translator"} =>
        \A runs \in {CaptionRuns(lines)} :
            (\A k \in 1..Len(runs) :
                ~BlockRaises(KeptLines(lines, runs[k], RunEndFrom(lines, runs[k]), ppc)))
            => /\ ~parsed.raised
               /\ Len(parsed.subs) = Len(runs)
               /\ \A k \in 1..Len(runs) :
                    parsed.subs[k] =
                        BlockRecord(KeptLines(lines, runs[k], RunEndFrom(lines, runs[k]), ppc))

\* C7 without the end of input: the same for files whose last line is blank
ParseClosedAtBlankLine ==
    (ppc \in {"processor", "translator"} /\ lines # <<>> /\ IsBlankLine(lines[Len(lines)])) =>
        \A runs \in {CaptionRuns(lines)} :
            (\A k \in 1..Len(runs) :
                ~BlockRaises(KeptLines(lines, runs[k], RunEndFrom(lines, runs[k]), ppc)))
            => /\ ~parsed.raised
               /\ Len(parsed.subs) = Len(runs)
               /\ \A k \in 1..Len(runs) :
                    parsed.subs[k] =
                        BlockRecord(KeptLines(lines, runs[k], RunEndFrom(lines, runs[k]), ppc))


(***************************************************************************)
(* Properties of the main flow (checked under Spec)                        *)
(***************************************************************************)
\* the blocks of a caption file: its runs of at least 3 non-blank lines
InputBlocks(f) ==
    [k \in 1..Len(CaptionRuns(f)) |->
        KeptLines(f, CaptionRuns(f)[k], RunEndFrom(f, CaptionRuns(f)[k]), "processor")]

\* no whitespace follows a sentence mark, the words are separated by single blanks
\* and there are at most mw of them
IsCleanText(x, mw) ==
    /\ \A i \in 1..(Len(x) - 1) : ~(x[i] \in SentenceEnd /\ IsSpace(x[i + 1]))
    /\ x = join(<<" ">>, split(x))
    /\ Len(split(x)) <= mw

\* every block has an index, a time range and a clean text, and starts after the
\* block before it ends
IsCleanFile(f, mw) ==
    \A bs \in {InputBlocks(f)} :
        /\ \A k \in 1..Len(bs) :
             /\ ~BlockRaises(bs[k])
             /\ IsCleanText(BlockRecord(bs[k]).text, mw)
        /\ \A k \in 2..Len(bs) :
             time_to_ms(BlockRecord(bs[k]).start) > time_to_ms(BlockRecord(bs[k - 1]).end)

\* the output file holds exactly the blocks bs, numbered from 1
IsIdentityOutput(out, bs) ==
    /\ Len(out) = 4 * Len(bs)
    /\ \A k \in 1..Len(bs) :
         /\ out[4 * k - 3] = StrOfNat(k) \o Newline
         /\ out[4 * k - 2] = BlockRecord(bs[k]).start \o Arrow \o BlockRecord(bs[k]).end \o Newline
         /\ out[4 * k - 1] = BlockRecord(bs[k]).text \o Newline
         /\ out[4 * k] = Newline

\* C10: on a clean caption file process writes exactly one cue per input block, in
\* order, numbered 1..n, with the block's text, start and end.
C10_IdentityOnCleanInput ==
    pc \in {"save_txt", "done", "raised"} =>
        (IsCleanFile(input_srt, max_words) =>
            pc # "raised" /\ IsIdentityOutput(output_srt, InputBlocks(input_srt)))

\* C10 for the files whose last line is blank
ProcessIdentityOnClosedFile ==
    (/\ pc \in {"save_txt", "done", "raised"}
     /\ input_srt # <<>>
     /\ IsBlankLine(input_srt[Len(input_srt)])
     /\ IsCleanFile(input_srt, max_words))
    => pc # "raised" /\ IsIdentityOutput(output_srt, InputBlocks(input_srt))

\* a clean file of two blocks that ends with a blank line was written out unchanged
ProcessIdentityReached ==
    /\ pc = "done"
    /\ Len(InputBlocks(input_srt)) = 2
    /\ IsBlankLine(input_srt[Len(input_srt)])
    /\ IsCleanFile(input_srt, max_words)
    /\ output_srt = input_srt


(***************************************************************************)
(* Properties of the translation pass (checked under SpecTranslate)        *)
(***************************************************************************)
\* C8: whichever translator calls raise, translate_subs goes on to its return, and
\* both lists then have one record per cue, in cue order, with the cue's idx, start
\* and end; the target-only text is the translation, or the source text when the
\* call raised (or was not made, the text being blank); the bilingual text is the
\* source text, a newline and the target-only text.
C8_FallbackKeepsOrder ==
    /\ xpc # "done" => ENABLED NextTranslate
    /\ xpc = "done" =>
        /\ Len(bilingual_subs) = Len(cues)
        /\ Len(chinese_subs) = Len(cues)
        /\ Len(outcomes) = Len(cues)
        /\ \A i \in 1..Len(cues) :
             /\ chinese_subs[i].idx = cues[i].idx
             /\ chinese_subs[i].start = cues[i].start
             /\ chinese_subs[i].end = cues[i].end
             /\ bilingual_subs[i].idx = cues[i].idx
             /\ bilingual_subs[i].start = cues[i].start
             /\ bilingual_subs[i].end = cues[i].end
             /\ chinese_subs[i].text =
                    IF outcomes[i].kind = "returned" THEN outcomes[i].value ELSE cues[i].text
             /\ bilingual_subs[i].text = cues[i].text \o <<"\n">> \o chinese_subs[i].text

\* three cues, the translator raised for the second one only, and the run returned
C8_Witness ==
    /\ xpc = "done"
    /\ Len(cues) = 3
    /\ outcomes[1].kind = "returned"
    /\ outcomes[2].kind = "raised"
    /\ outcomes[3].kind = "returned"
    /\ chinese_subs[2].text = cues[2].text
    /\ chinese_subs[3].text = outcomes[3].value

(***************************************************************************)
(* Properties of the weak-break stage (checked under SpecText)             *)
(***************************************************************************)
\* the word w stands in s from position p on
OccursAt(w, s, p) == p + Len(w) - 1 <= Len(s) /\ SubSeq(s, p, p + Len(w) - 1) = w

\* ... with no word character on either side of it
WholeWordAt(w, s, p) ==
    /\ OccursAt(w, s, p)
    /\ p = 1 \/ ~IsWordChar(s[p - 1])
    /\ p + Len(w) > Len(s) \/ ~IsWordChar(s[p + Len(w)])

\* ... and an apostrophe right after it
ApostropheAfter(w, s, p) == p + Len(w) <= Len(s) /\ s[p + Len(w)] = "'"

RECURSIVE SumLens(_, _)
SumLens(chunks, n) == IF n = 0 THEN 0 ELSE Len(chunks[n]) + SumLens(chunks, n - 1)

\* where in the part the k-th matched conjunction of the chunk list starts
MatchStart(chunks, k) == SumLens(chunks, 2 * k - 1) + 1
MatchCount(chunks) == (Len(chunks) - 1) \div 2
MatchStarts(chunks) == {MatchStart(chunks, k) : k \in 1..MatchCount(chunks)}

\* x is a run of consecutive characters of s
IsSubstring(x, s) == \E p \in 1..(Len(s) + 1) : OccursAt(x, s, p)

\* the sentences of the text that go through the weak-break stage
LongParts(s, mw) == {part \in {SentenceSplit(s)[i] : i \in 1..Len(SentenceSplit(s))} : Len(split(part)) > mw}

\* C11: in a sentence of more than max_words words, a conjunction followed by an
\* apostrophe is not a split point and no split falls between it and its apostrophe,
\* so the conjunction with its apostrophe is whole inside one returned piece; a
\* whole-word conjunction not followed by an apostrophe is a split point.
C11_ContractionProtected ==
    tpc = "done" =>
        \A part \in LongParts(text, max_words) : \A chunks \in {WeakSplit(part)} :
            /\ Concat(chunks) = part
            /\ \A k \in 1..Len(Conjunctions) : \A p \in 1..Len(part) :
                 \A w \in {Conjunctions[k]} :
                    /\ (OccursAt(w, part, p) /\ ApostropheAfter(w, part, p)) =>
                          /\ \A q \in MatchStarts(chunks) : ~(p <= q /\ q <= p + Len(w))
                          /\ \E i \in 1..Len(pieces) : IsSubstring(w \o <<"'">>, pieces[i])
                    /\ (WholeWordAt(w, part, p) /\ ~ApostropheAfter(w, part, p)) =>
                          \E j \in 1..MatchCount(chunks) :
                              MatchStart(chunks, j) = p /\ chunks[2 * j] = w

\* a sentence of more than max_words words holds a conjunction with an apostrophe
\* after it and a whole-word conjunction without one, and split_text returned
C11_Witness ==
    /\ tpc = "done"
    /\ Len(pieces) >= 2
    /\ \E part \in LongParts(text, max_words) :
         \E k \in 1..Len(Conjunctions) : \E p, q \in 1..Len(part) :
            /\ OccursAt(Conjunctions[k], part, p) /\ ApostropheAfter(Conjunctions[k], part, p)
            /\ WholeWordAt(Conjunctions[k], part, q) /\ ~ApostropheAfter(Conjunctions[k], part, q)
            /\ q \in MatchStarts(WeakSplit(part))

(***************************************************************************)
(* Order of the translation pass (checked under SpecTranslate)             *)
(***************************************************************************)
\* the positions of the event log that hold the event ev
EventPositions(ev) == {a \in 1..Len(events) : events[a] = ev}

\* the event at position a ends a translator call
EndsCall(a, i) == a <= Len(events) /\ events[a] \in {<<"return", i>>, <<"raise", i>>}

\* C12: the translator calls are made one at a time in cue order, each returning
\* or raising before anything else happens; one delay follows every cue but the
\* last and precedes all that is done for the next cue; a finished pass over n
\* cues has made n - 1 delays, and none when n <= 1.
C12_SequentialCallsAndDelays ==
    /\ \A a, b \in 1..Len(events) :
          a < b =>
            /\ events[a][2] <= events[b][2]
            /\ events[a][1] = "sleep" => events[a][2] < events[b][2]
    /\ \A a \in 1..Len(events) :
          /\ events[a][1] = "call" => EndsCall(a + 1, events[a][2])
          /\ events[a][1] \in {"return", "raise"} => (a > 1 /\ events[a - 1] = <<"call", events[a][2]>>)
          /\ \A i \in 1..(events[a][2] - 1) :
                \E b \in 1..(a - 1) : events[b] = <<"sleep", i>>
    /\ \A i \in 1..Len(cues) :
          /\ Cardinality(EventPositions(<<"call", i>>)) <= 1
          /\ Cardinality(EventPositions(<<"sleep", i>>)) <= 1
    /\ EventPositions(<<"sleep", Len(cues)>>) = {}
    /\ sleeps = Cardinality({a \in 1..Len(events) : events[a][1] = "sleep"})
    /\ xpc = "done" =>
          /\ sleeps = IF Len(cues) <= 1 THEN 0 ELSE Len(cues) - 1
          /\ \A i \in 1..Len(cues) :
                 Cardinality(EventPositions(<<"call", i>>)) =
                     IF strip(cues[i].text) = <<>> THEN 0 ELSE 1

\* a finished pass over three cues with three calls, the second of which raised,
\* and two delays
C12_Witness ==
    /\ xpc = "done"
    /\ Len(cues) = 3
    /\ sleeps = 2
    /\ events = << <<"call", 1>>, <<"return", 1>>, <<"sleep", 1>>,
                   <<"call", 2>>, <<"raise", 2>>, <<"sleep", 2>>,
                   <<"call", 3>>, <<"return", 3>> >>

(***************************************************************************)
(* Properties of the coalescing stage (checked under SpecCoalesce)         *)
(***************************************************************************)
\* the positions of results whose piece opens a piece of merged: the first one and
\* every piece of more than 3 words
GroupStarts(rs) == {i \in 1..Len(rs) : i = 1 \/ Len(split(rs[i])) > 3}

\* where the group that starts at position g ends
GroupEnd(rs, g) ==
    IF \E h \in GroupStarts(rs) : h > g
    THEN (CHOOSE h \in GroupStarts(rs) : h > g /\ \A x \in GroupStarts(rs) : x > g => h <= x) - 1
    ELSE Len(rs)

\* C13: every piece of at most 3 words that is not the first is joined, after a
\* space, to the piece of merged before it, the first piece and every piece of
\* more than 3 words open a piece of merged; so no piece of merged but possibly the
\* first has 3 words or fewer.
C13_ShortPiecesCoalesced ==
    kpc = "done" =>
        \A starts \in {SortedSeq(GroupStarts(stage_results))} :
            /\ Len(stage_merged) = Len(starts)
            /\ \A k \in 1..Len(starts) :
                  stage_merged[k] =
                      join(<<" ">>, SubSeq(stage_results, starts[k], GroupEnd(stage_results, starts[k])))
            /\ \A k \in 2..Len(stage_merged) : Len(split(stage_merged[k])) > 3

\* a short first piece stayed first, a later short piece was joined to the piece
\* before it, and a piece of more than 3 words stands as a second piece of merged
C13_Witness ==
    /\ kpc = "done"
    /\ Len(stage_results) = 4
    /\ Len(split(stage_results[1])) <= 3
    /\ Len(split(stage_results[2])) <= 3
    /\ Len(split(stage_results[3])) > 3
    /\ Len(split(stage_results[4])) <= 3
    /\ Len(stage_merged) = 2
    /\ stage_merged[1] = stage_results[1] \o <<" ">> \o stage_results[2]
    /\ stage_merged[2] = stage_results[3] \o <<" ">> \o stage_results[4]

(***************************************************************************)
(* Word preservation of split_text (checked under SpecText)                *)
(***************************************************************************)
\* the words of the pieces, in piece order
RECURSIVE WordsOf(_)
WordsOf(ps) == IF ps = <<>> THEN <<>> ELSE split(Head(ps)) \o WordsOf(Tail(ps))

\* C14: the words of the returned pieces, taken in piece order, are the words of
\* the text in their order: none lost, doubled, moved or changed.
C14_WordsPreserved ==
    tpc = "done" => WordsOf(pieces) = split(text)

\* every conjunction the weak-break pattern can match in s has whitespace or an
\* end of s on both sides
ConjunctionsStandAlone(s) ==
    \A k \in 1..Len(Conjunctions) : \A p \in 1..Len(s) : \A w \in {Conjunctions[k]} :
        (WholeWordAt(w, s, p) /\ ~ApostropheAfter(w, s, p)) =>
            /\ p = 1 \/ IsSpace(s[p - 1])
            /\ p + Len(w) > Len(s) \/ IsSpace(s[p + Len(w)])

\* the words are preserved when no matched conjunction touches another character
WordsPreservedWhenConjunctionsStandAlone ==
    (tpc = "done" /\ ConjunctionsStandAlone(text)) => WordsOf(pieces) = split(text)

\* a text with a matched conjunction went through the weak-break stage and came
\* out with its words as they were
WordsPreservedReached ==
    /\ tpc = "done"
    /\ ConjunctionsStandAlone(text)
    /\ \E part \in LongParts(text, max_words) : MatchCount(WeakSplit(part)) >= 1
    /\ Len(pieces) >= 2
    /\ WordsOf(pieces) = split(text)
====
